---- MODULE Spec2Model ----
(***************************************************************************)
(* Model of iiif-download.py: the command line entry point, the manifest   *)
(* traversal of scrape_images_from_iiif_manifest (IIIF v3 and v2) and the  *)
(* retry loop of download_image.                                           *)
(*                                                                         *)
(* Strings that the program inspects or builds (image ids, labels, file    *)
(* names) are sequences of one-character strings, so that the substring    *)
(* tests and the concatenations of the code are computed, not assumed.     *)
(***************************************************************************)
EXTENDS Integers, Sequences, FiniteSets, TLC

VARIABLES
    output,        \* args.output: None when -o is not given
    response,      \* what the manifest GET answers: status code and JSON body
    folderExists,  \* os.path.exists(download_folder)
    fs,            \* the files of the download folder: filename -> content
    pc,            \* position of the sequential process
    run,           \* number of the current program run (1-based)
    pos,           \* index, in traversal order, of the innermost loop iteration in progress
    todo,          \* what is left of the body of that iteration (calls, warnings)
    attempt,       \* loop variable of download_image
    gets,          \* HTTP GETs issued by the download_image call in progress or last finished
    sleeps,        \* time.sleep arguments of that call, in order
    calls,         \* the download_image calls of this run, in order, with how each ended;
                   \* the last one is the call in progress while pc is "attempt" or "stream"
    warnings,      \* "no image URL" warnings of this run: position and source line
    raised,        \* the exception that ended the run, or NoExc
    errorLogged,   \* logger.error("Failed to fetch manifest") was emitted in this run
    parsed,        \* response.json() was evaluated in this run
    prev           \* how the previous run ended, and whether each of its calls downloaded

vars == <<output, response, folderExists, fs, pc, run, pos, todo, attempt, gets, sleeps,
          calls, warnings, raised, errorLogged, parsed, prev>>

----------------------------------------------------------------------------
(* Bounds of the model *)

\* number of program runs over the same manifest and folder
MaxRuns == 2

\* number of canvases (v2) or canvas groups (v3) of a manifest
MaxCanvases == 2

----------------------------------------------------------------------------
(* Strings *)

S_vatlib == <<"v", "a", "t", "l", "i", "b">>
S_default == <<"d", "e", "f", "a", "u", "l", "t">>
S_jpg == <<".", "j", "p", "g">>
S_full == <<"/", "f", "u", "l", "l">>

\* "/full/full/0/default.jpg"
VatlibSuffix == S_full \o S_full \o <<"/", "0", "/">> \o S_default \o S_jpg

\* "/full/full/0/default/default.jpg"
AppendSuffix == S_full \o S_full \o <<"/", "0", "/">> \o S_default \o <<"/">> \o S_default \o S_jpg

\* Python's  needle in hay  on strings
Contains(hay, needle) ==
    \E i \in 0..(Len(hay) - Len(needle)) : SubSeq(hay, i + 1, i + Len(needle)) = needle

Digit(d) ==
    CASE d = 0 -> "0" [] d = 1 -> "1" [] d = 2 -> "2" [] d = 3 -> "3" [] d = 4 -> "4"
      [] d = 5 -> "5" [] d = 6 -> "6" [] d = 7 -> "7" [] d = 8 -> "8" [] d = 9 -> "9"

\* Python's str(n) for n >= 0
RECURSIVE Str(_)
Str(n) == IF n < 10 THEN <<Digit(n)>> ELSE Str(n \div 10) \o <<Digit(n % 10)>>

\* sequences over S of length at most n
SeqsUpTo(S, n) == UNION {[1..k -> S] : k \in 0..n}

RECURSIVE Concat(_)
Concat(ss) == IF ss = <<>> THEN <<>> ELSE Head(ss) \o Concat(Tail(ss))

----------------------------------------------------------------------------
(* Manifests.  A JSON object is a record, a JSON array a sequence; a key     *)
(* that is absent is absent from the record's DOMAIN.  "@id" is written     *)
(* at_id.  The body of a v3 annotation is tagged with its JSON type, which  *)
(* is what isinstance(body, list) reads.                                    *)

None == "None"
NoExc == [type |-> "none"]

Res(id) == [at_id |-> id]
ResS(id, sid) == [at_id |-> id, service |-> [at_id |-> sid]]
Img(r) == [resource |-> r]

Dict(d) == [type |-> "dict", value |-> d]
List(l) == [type |-> "list", value |-> l]
Anno(b) == [body |-> b]
Canvas3(annos) == [items |-> annos]

\* v2 canvases
V2Canvases ==
    { [images |-> <<Img(Res(<<"a">>))>>],
      [label |-> <<"2">>, images |-> <<Img(Res(<<"b", "/">> \o S_default \o S_jpg))>>],
      [images |-> <<Img(Res(<<"d">>)), Img(Res(<<>>))>>],
      [label |-> <<"p">>, images |-> <<Img(ResS(S_vatlib \o <<"/">> \o S_default, <<"s">>))>>] }

\* v3 canvas groups (the elements of the top-level items)
V3Items ==
    { [label |-> [none |-> << <<"p">> >>],
       items |-> <<Canvas3(<<Anno(Dict([id |-> <<"a">>]))>>)>>],
      [label |-> [none |-> << <<"p">>, <<"x">> >>],
       items |-> <<Canvas3(<<Anno(List(<<[id |-> <<"b">>], [id |-> <<"c">>]>>))>>)>>],
      [items |-> <<Canvas3(<<Anno(Dict([id |-> <<>>])), Anno(Dict([id |-> <<"e">>]))>>)>>],
      [label |-> [none |-> << <<"r">> >>],
       items |-> <<Canvas3(<<Anno(Dict([id |-> <<"f">>]))>>),
                   Canvas3(<<Anno(Dict([id |-> <<"g">>]))>>)>>] }

\* the ways to lay a list of canvases out in one or two sequences
Layouts(cs) ==
    {<< [canvases |-> cs] >>} \cup
    { << [canvases |-> SubSeq(cs, 1, k)], [canvases |-> SubSeq(cs, k + 1, Len(cs))] >> :
        k \in 1..(Len(cs) - 1) }

V2Manifests ==
    { [sequences |-> ss] : ss \in UNION {Layouts(cs) : cs \in SeqsUpTo(V2Canvases, MaxCanvases)} }

V3Manifests ==
    { [items |-> its] : its \in SeqsUpTo(V3Items, MaxCanvases) }

\* neither dialect; both keys; a label without "none" and a body without "id";
\* a vatlib resource without "service"
OtherManifests ==
    { [label |-> <<"x">>],
      [items |-> <<[items |-> <<Canvas3(<<Anno(Dict([id |-> <<"a">>]))>>)>>]>>,
       sequences |-> << [canvases |-> <<[images |-> <<Img(Res(<<"a">>))>>]>>] >>],
      [items |-> <<[label |-> [en |-> << <<"q">> >>],
                    items |-> <<Canvas3(<<Anno(Dict([id |-> <<"h">>])),
                                          Anno(Dict([format |-> <<"j">>])),
                                          Anno(Dict([id |-> <<"i">>]))>>)>>]>>],
      [sequences |-> << [canvases |-> <<[images |-> <<Img(ResS(S_vatlib \o <<"/", "x">>, <<"t">>)),
                                                      Img(Res(S_vatlib)),
                                                      Img(Res(<<"e">>))>>]>>] >>] }

Manifests == V3Manifests \cup V2Manifests \cup OtherManifests

\* what the manifest URL can answer
\* the body of an error answer
ErrorDocument == [error |-> <<"e">>]

Responses ==
    {[status_code |-> 404, json |-> ErrorDocument], [status_code |-> 503, json |-> ErrorDocument]} \cup
    {[status_code |-> 200, json |-> m] : m \in Manifests}

\* lines 63 and 133-134: __main__ always passes args.output, so the default of the
\* parameter, "iiif_images", never applies
download_folder == output

\* only the 4xx answers taken as failures
Failed_ClientErrorsOnly(resp) == resp.status_code \in 400..499

\* line 66
Failed(resp) == resp.status_code # 200

----------------------------------------------------------------------------
(* Traversal of the manifest: the innermost loop iterations, in order, each *)
(* with the filename the enclosing loops computed for it.                   *)

\* item.get("label", {}).get("none", [""])[0]
V3Label(item) ==
    IF "label" \in DOMAIN item
    THEN IF "none" \in DOMAIN item.label THEN item.label.none[1] ELSE <<>>
    ELSE <<>>

\* for canvas in item["items"]: for annotation_page in canvas["items"]
V3ItemSteps(item) ==
    LET filename == V3Label(item) \o S_jpg
    IN  Concat([c \in 1..Len(item.items) |->
                   [a \in 1..Len(item.items[c].items) |->
                       [filename |-> filename, node |-> item.items[c].items[a]]]])

\* for item in manifest["items"]
V3Steps(manifest) == Concat([i \in 1..Len(manifest.items) |-> V3ItemSteps(manifest.items[i])])

V2Filename(canvas, index) ==
    IF "label" \in DOMAIN canvas THEN canvas.label \o S_jpg ELSE Str(index) \o S_jpg

\* for image in canvas["images"]
V2ImageSteps(canvas, filename) ==
    [k \in 1..Len(canvas.images) |-> [filename |-> filename, node |-> canvas.images[k]]]

\* for canvas in sequence["canvases"], with the running index
RECURSIVE V2CanvasLoop(_, _)
V2CanvasLoop(canvases, st) ==
    IF canvases = <<>> THEN st
    ELSE V2CanvasLoop(Tail(canvases),
             [steps |-> st.steps \o V2ImageSteps(Head(canvases), V2Filename(Head(canvases), st.index)),
              index |-> st.index + 1])

\* index = 1 placed inside the loop over the sequences
RECURSIVE V2SequenceLoop_IndexReset(_, _)
V2SequenceLoop_IndexReset(sequences, st) ==
    IF sequences = <<>> THEN st
    ELSE V2SequenceLoop_IndexReset(Tail(sequences),
             V2CanvasLoop(Head(sequences).canvases, [steps |-> st.steps, index |-> 1]))

\* for sequence in manifest["sequences"]
RECURSIVE V2SequenceLoop(_, _)
V2SequenceLoop(sequences, st) ==
    IF sequences = <<>> THEN st
    ELSE V2SequenceLoop(Tail(sequences), V2CanvasLoop(Head(sequences).canvases, st))

V2Steps(manifest) == V2SequenceLoop(manifest.sequences, [steps |-> <<>>, index |-> 1]).steps

\* if "items" in manifest ... elif "sequences" in manifest
Dialect(manifest) ==
    IF "items" \in DOMAIN manifest THEN "v3"
    ELSE IF "sequences" \in DOMAIN manifest THEN "v2"
    ELSE "none"

Steps(manifest) ==
    CASE Dialect(manifest) = "v3" -> V3Steps(manifest)
      [] Dialect(manifest) = "v2" -> V2Steps(manifest)
      [] OTHER -> <<>>

----------------------------------------------------------------------------
(* The body of the innermost loops: the calls, warnings and exceptions of   *)
(* one iteration, in program order.                                         *)

CallOp(line, url) == [op |-> "call", line |-> line, url |-> url]
WarnOp(line) == [op |-> "warn", line |-> line, url |-> <<>>]
RaiseOp(line, type) == [op |-> "raise", line |-> line, url |-> <<>>, type |-> type]

\* body[-1] taken from a list body
V3Ops_LastOfList(annotation_page) ==
    LET body0 == annotation_page.body
        body == IF body0.type = "list" THEN body0.value[Len(body0.value)] ELSE body0.value
    IN  IF "id" \notin DOMAIN body THEN <<RaiseOp(87, "KeyError")>>
        ELSE IF body.id # <<>> THEN <<CallOp(89, body.id)>>
        ELSE <<WarnOp(91)>>

\* lines 84-91
V3Ops(annotation_page) ==
    LET body0 == annotation_page.body
        body == IF body0.type = "list" THEN body0.value[1] ELSE body0.value
    IN  IF "id" \notin DOMAIN body THEN <<RaiseOp(87, "KeyError")>>
        ELSE IF body.id # <<>> THEN <<CallOp(89, body.id)>>
        ELSE <<WarnOp(91)>>

\* the second test lost: the verbatim call made whatever the id holds
V2PlainOps_BothCalls(image_url) ==
    (IF ~Contains(image_url, S_default)
     THEN <<CallOp(115, image_url \o AppendSuffix)>>
     ELSE <<>>)
    \o <<CallOp(117, image_url)>>

\* lines 110-119: two independent tests of "default" in image_url
V2PlainOps(image_url) ==
    (IF ~Contains(image_url, S_default)
     THEN <<CallOp(115, image_url \o AppendSuffix)>>
     ELSE <<>>)
    \o
    (IF Contains(image_url, S_default)
     THEN <<CallOp(117, image_url)>>
     ELSE <<WarnOp(119)>>)

\* "default" tested before "vatlib"
V2Ops_DefaultFirst(image) ==
    LET resource == image.resource
    IN  IF Contains(resource.at_id, S_default) THEN <<CallOp(117, resource.at_id)>>
        ELSE IF Contains(resource.at_id, S_vatlib)
        THEN IF "service" \notin DOMAIN resource THEN <<RaiseOp(106, "KeyError")>>
             ELSE <<CallOp(108, resource.service.at_id \o VatlibSuffix)>>
        ELSE V2PlainOps(resource.at_id)

\* lines 104-119
V2Ops(image) ==
    LET resource == image.resource
    IN  IF Contains(resource.at_id, S_vatlib)
        THEN IF "service" \notin DOMAIN resource THEN <<RaiseOp(106, "KeyError")>>
             ELSE <<CallOp(108, resource.service.at_id \o VatlibSuffix)>>
        ELSE V2PlainOps(resource.at_id)

----------------------------------------------------------------------------
(* download_image *)

\* range(1, max_retries + 2): one attempt too many
max_retries_OneMore == 11

max_retries == 10
base_wait == 60

\* the errors an attempt can end with: requests.get or raise_for_status before the
\* file is opened, iter_content after it was opened
ErrorsBeforeOpen == {"Timeout", "HTTPError"}
ErrorWhileStreaming == "ChunkedEncodingError"

Cur == calls[Len(calls)]

\* the test of line 24 never true
Exists_Never(filename) == FALSE

\* os.path.exists(file_path)
Exists(filename) == filename \in DOMAIN fs

\* open(file_path, "wb"): the file is created, or truncated, and empty or partly written
\* until the last chunk is written
Opened(files, filename, url) == (filename :> [url |-> url, full |-> FALSE]) @@ files

\* the for loop over response.iter_content ran to its end
Written(files, filename, url) == (filename :> [url |-> url, full |-> TRUE]) @@ files

\* the exponent taken from the attempt number, not from the attempt number less one
WaitTime_ExponentOff(k) == base_wait * (2 ^ k)

\* line 47
WaitTime(k) == base_wait * (2 ^ (k - 1))

\* lines 58-60
PermanentFailure(filename, e) ==
    [type |-> "Exception", filename |-> filename, attempts |-> max_retries, cause |-> e]

SetResult(result) ==
    [calls EXCEPT ![Len(calls)] = [@ EXCEPT !.result = result, !.retried = (attempt > 1)]]

\* the skip and the success branch stay in the retry loop, which never counts them
Return_StaysInLoop(result) ==
    /\ calls' = SetResult(result)
    /\ pc' = "attempt"
    /\ UNCHANGED <<attempt, sleeps, raised>>

\* return of download_image to the loop body that called it
Return(result) ==
    /\ calls' = SetResult(result)
    /\ pc' = "loop"
    /\ UNCHANGED <<attempt, sleeps, raised>>

\* lines 45-60: the except clause
Except(e) ==
    IF attempt < max_retries
    THEN /\ sleeps' = Append(sleeps, WaitTime(attempt))
         /\ attempt' = attempt + 1
         /\ pc' = "attempt"
         /\ UNCHANGED <<calls, raised>>
    ELSE /\ raised' = PermanentFailure(Cur.filename, e)
         /\ calls' = SetResult("failed")
         /\ pc' = "done"
         /\ UNCHANGED <<attempt, sleeps>>

\* lines 21-32: one iteration of the retry loop up to the opening of the file
Attempt ==
    /\ pc = "attempt"
    /\ IF Exists(Cur.filename)
       THEN /\ Return("skipped")
            /\ UNCHANGED <<fs, gets>>
       ELSE /\ gets' = gets + 1
            /\ \E outcome \in ErrorsBeforeOpen \cup {"ok"} :
                  IF outcome = "ok"
                  THEN /\ fs' = Opened(fs, Cur.filename, Cur.url)
                       /\ pc' = "stream"
                       /\ UNCHANGED <<attempt, sleeps, calls, raised>>
                  ELSE /\ Except(outcome)
                       /\ UNCHANGED fs
    /\ UNCHANGED <<output, response, folderExists, run, pos, todo, warnings, errorLogged,
                   parsed, prev>>

\* lines 33-44: the body is streamed into the open file
Stream ==
    /\ pc = "stream"
    /\ \E ok \in BOOLEAN :
          IF ok
          THEN /\ fs' = Written(fs, Cur.filename, Cur.url)
               /\ Return("downloaded")
          ELSE /\ Except(ErrorWhileStreaming)
               /\ UNCHANGED fs
    /\ UNCHANGED <<output, response, folderExists, run, pos, todo, gets, warnings,
                   errorLogged, parsed, prev>>

----------------------------------------------------------------------------
(* scrape_images_from_iiif_manifest, as called by __main__ *)

Init ==
    /\ output \in {None, <<"o">>}
    /\ response \in Responses
    /\ folderExists \in BOOLEAN
    /\ fs = <<>>
    /\ pc = "main"
    /\ run = 1
    /\ pos = 0
    /\ todo = <<>>
    /\ attempt = 1
    /\ gets = 0
    /\ sleeps = <<>>
    /\ calls = <<>>
    /\ warnings = <<>>
    /\ raised = NoExc
    /\ errorLogged = FALSE
    /\ parsed = FALSE
    /\ prev = [ended |-> "none", downloadedAll |-> FALSE]

\* lines 132-134 and 65-68: the manifest GET answers a status other than 200
ManifestFailed ==
    /\ pc = "main"
    /\ Failed(response)
    /\ errorLogged' = TRUE
    /\ pc' = "done"
    /\ UNCHANGED <<output, response, folderExists, fs, run, pos, todo, attempt, gets, sleeps,
                   calls, warnings, raised, parsed, prev>>

\* lines 132-134 and 65-73: status 200, the body is parsed; os.path.exists(None) raises
NoFolderArgument ==
    /\ pc = "main"
    /\ ~Failed(response)
    /\ download_folder = None
    /\ parsed' = TRUE
    /\ raised' = [type |-> "TypeError"]
    /\ pc' = "done"
    /\ UNCHANGED <<output, response, folderExists, fs, run, pos, todo, attempt, gets, sleeps,
                   calls, warnings, errorLogged, prev>>

\* lines 132-134 and 65-78, 93-95: the folder is made if absent, the dialect chosen
Dispatch ==
    /\ pc = "main"
    /\ ~Failed(response)
    /\ download_folder # None
    /\ parsed' = TRUE
    /\ folderExists' = TRUE
    /\ pc' = IF Dialect(response.json) = "none" THEN "done" ELSE "loop"
    /\ UNCHANGED <<output, response, fs, run, pos, todo, attempt, gets, sleeps, calls,
                   warnings, raised, errorLogged, prev>>

\* lines 82-87: the next annotation of a v3 manifest
V3Annotation ==
    /\ pc = "loop"
    /\ todo = <<>>
    /\ Dialect(response.json) = "v3"
    /\ pos < Len(Steps(response.json))
    /\ pos' = pos + 1
    /\ todo' = V3Ops(Steps(response.json)[pos + 1].node)
    /\ UNCHANGED <<output, response, folderExists, fs, pc, run, attempt, gets, sleeps, calls,
                   warnings, raised, errorLogged, parsed, prev>>

\* lines 103-111: the next image of a v2 manifest
V2Image ==
    /\ pc = "loop"
    /\ todo = <<>>
    /\ Dialect(response.json) = "v2"
    /\ pos < Len(Steps(response.json))
    /\ pos' = pos + 1
    /\ todo' = V2Ops(Steps(response.json)[pos + 1].node)
    /\ UNCHANGED <<output, response, folderExists, fs, pc, run, attempt, gets, sleeps, calls,
                   warnings, raised, errorLogged, parsed, prev>>

\* the retry state kept in variables that outlive the call
RetryStateAtCall_Kept == [attempt |-> attempt, gets |-> gets, sleeps |-> sleeps]

\* lines 18-21: the retry state is local to the call and starts afresh
RetryStateAtCall == [attempt |-> 1, gets |-> 0, sleeps |-> <<>>]

\* lines 17-20: a call of download_image from line 89, 108, 115 or 117
Call ==
    /\ pc = "loop"
    /\ todo # <<>>
    /\ Head(todo).op = "call"
    /\ calls' = Append(calls,
                   [pos |-> pos, line |-> Head(todo).line, url |-> Head(todo).url,
                    filename |-> Steps(response.json)[pos].filename,
                    existed |-> Exists(Steps(response.json)[pos].filename),
                    result |-> "running", retried |-> FALSE])
    /\ todo' = Tail(todo)
    /\ attempt' = RetryStateAtCall.attempt
    /\ gets' = RetryStateAtCall.gets
    /\ sleeps' = RetryStateAtCall.sleeps
    /\ pc' = "attempt"
    /\ UNCHANGED <<output, response, folderExists, fs, run, pos, warnings, raised,
                   errorLogged, parsed, prev>>

\* lines 91 and 119
Warn ==
    /\ pc = "loop"
    /\ todo # <<>>
    /\ Head(todo).op = "warn"
    /\ warnings' = Append(warnings, [pos |-> pos, line |-> Head(todo).line])
    /\ todo' = Tail(todo)
    /\ UNCHANGED <<output, response, folderExists, fs, pc, run, pos, attempt, gets, sleeps,
                   calls, raised, errorLogged, parsed, prev>>

\* lines 87 and 106: a key the loop body reads is absent
KeyMissing ==
    /\ pc = "loop"
    /\ todo # <<>>
    /\ Head(todo).op = "raise"
    /\ raised' = [type |-> Head(todo).type]
    /\ pc' = "done"
    /\ UNCHANGED <<output, response, folderExists, fs, run, pos, todo, attempt, gets, sleeps,
                   calls, warnings, errorLogged, parsed, prev>>

\* the loops are exhausted: the function returns
Finish ==
    /\ pc = "loop"
    /\ todo = <<>>
    /\ pos = Len(Steps(response.json))
    /\ pc' = "done"
    /\ UNCHANGED <<output, response, folderExists, fs, run, pos, todo, attempt, gets, sleeps,
                   calls, warnings, raised, errorLogged, parsed, prev>>

\* the program is started again with the same arguments; the folder and its files stay
Rerun ==
    /\ pc = "done"
    /\ run < MaxRuns
    /\ run' = run + 1
    /\ prev' = [ended |-> IF raised = NoExc THEN "returned" ELSE "raised",
                 downloadedAll |-> \A i \in 1..Len(calls) : calls[i].result = "downloaded"]
    /\ pc' = "main"
    /\ pos' = 0
    /\ todo' = <<>>
    /\ attempt' = 1
    /\ gets' = 0
    /\ sleeps' = <<>>
    /\ calls' = <<>>
    /\ warnings' = <<>>
    /\ raised' = NoExc
    /\ errorLogged' = FALSE
    /\ parsed' = FALSE
    /\ UNCHANGED <<output, response, folderExists, fs>>

Next ==
    \/ ManifestFailed
    \/ NoFolderArgument
    \/ Dispatch
    \/ V3Annotation
    \/ V2Image
    \/ Call
    \/ Warn
    \/ KeyMissing
    \/ Attempt
    \/ Stream
    \/ Finish
    \/ Rerun

Spec == Init /\ [][Next]_vars

\* the steps of one run of the program
RunStep ==
    \/ ManifestFailed
    \/ NoFolderArgument
    \/ Dispatch
    \/ V3Annotation
    \/ V2Image
    \/ Call
    \/ Warn
    \/ KeyMissing
    \/ Attempt
    \/ Stream
    \/ Finish

\* one run of the program, which goes on once started: every GET ends within its
\* timeout of 120 seconds or with an error, every sleep is finite, nothing else blocks
FairSpec == Init /\ [][RunStep]_vars /\ WF_vars(RunStep)

----------------------------------------------------------------------------
(* Properties *)

TheSteps == IF parsed THEN Steps(response.json) ELSE <<>>

InCall == pc \in {"attempt", "stream"}

Returned(c) == c.result \in {"skipped", "downloaded"}

\* the loop body at position p makes a download_image call
MakesCall(p) ==
    LET ops == IF Dialect(response.json) = "v3" THEN V3Ops(TheSteps[p].node)
               ELSE V2Ops(TheSteps[p].node)
    IN  \E k \in 1..Len(ops) : ops[k].op = "call"

CalledAt(p) == \E i \in 1..Len(calls) : calls[i].pos = p

\* C1: when download_image returns normally for a path that did not exist when it
\* was called, the file at that path holds a complete response body, never a
\* truncated one.
C1_ReturnedFileIsComplete ==
    \A i \in 1..Len(calls) :
        (Returned(calls[i]) /\ ~calls[i].existed)
            => /\ Exists(calls[i].filename)
               /\ fs[calls[i].filename].full

\* C2: after a permanent failure of one image, the run still calls download_image
\* for every later image of the manifest.
C2_BatchContinuesAfterFailure ==
    (pc = "done" /\ raised.type = "Exception")
        => \A p \in 1..Len(TheSteps) : MakesCall(p) => CalledAt(p)

\* C3: an attempt after a failed one starts with no file at the destination (what
\* the failed attempt wrote was discarded), so that it issues a new GET.
C3_RetryStartsWithoutFile ==
    (pc = "attempt" /\ attempt > 1) => ~Exists(Cur.filename)

\* C4: the wait after the k-th failed attempt of a call is 60 * 2^(k-1) seconds, one
\* wait per failed attempt but the tenth; a download that succeeds at the 4th attempt
\* slept 60, 120, 240 and nothing else.
C4_BackoffIsExponential ==
    /\ Len(sleeps) = attempt - 1
    /\ Len(sleeps) <= 9
    /\ \A k \in 1..Len(sleeps) : sleeps[k] = 60 * (2 ^ (k - 1))
    /\ (calls # <<>> /\ Cur.result = "downloaded" /\ gets = 4) => sleeps = <<60, 120, 240>>

C4_Witness ==
    /\ pc = "loop"
    /\ calls # <<>>
    /\ Cur.result = "downloaded"
    /\ gets = 4
    /\ sleeps = <<60, 120, 240>>

C5_State ==
    /\ gets <= 10
    /\ attempt \in 1..10
    /\ InCall => gets \in {attempt - 1, attempt}
    /\ raised.type = "Exception"
          => /\ pc = "done"
             /\ Cur.result = "failed"
             /\ raised.filename = Cur.filename
             /\ raised.attempts = 10
             /\ raised.cause \in ErrorsBeforeOpen \cup {ErrorWhileStreaming}
             /\ gets = 10
             /\ Len(sleeps) = 9
    /\ (calls # <<>> /\ ~InCall /\ gets = 10 /\ Cur.result # "downloaded")
          => raised.type = "Exception"

\* the step that raises the permanent failure is the failure of the 10th attempt, and
\* the exception carries the error of that attempt
C5_Step ==
    (raised'.type = "Exception" /\ raised.type # "Exception")
        => /\ attempt = 10 /\ attempt' = 10
           /\ sleeps' = sleeps
           /\ IF pc = "stream" THEN raised'.cause = ErrorWhileStreaming
              ELSE pc = "attempt" /\ gets' = gets + 1 /\ raised'.cause \in ErrorsBeforeOpen

\* C5: a download_image call issues at most 10 GETs; after 10 failed attempts it
\* raises a failure that names the filename, the count 10 and the last error, with no
\* sleep after the 10th failure and no 11th attempt.
C5_AtMostTenAttempts == []C5_State /\ [][C5_Step]_vars

C5_Witness ==
    /\ raised.type = "Exception"
    /\ raised.cause = ErrorWhileStreaming
    /\ gets = 10

\* the previous run returned normally and each of its calls downloaded its image
AfterFullRun == run >= 2 /\ prev.ended = "returned" /\ prev.downloadedAll

C6_State ==
    AfterFullRun
        => /\ gets = 0
           /\ sleeps = <<>>
           /\ pc # "stream"
           /\ raised = NoExc
           /\ \A i \in 1..Len(calls) : calls[i].existed /\ calls[i].result \in {"running", "skipped"}
           /\ \A f \in DOMAIN fs : fs[f].full
           /\ pc = "done"
                 => /\ \A i \in 1..Len(calls) : calls[i].result = "skipped"
                    /\ \A p \in 1..Len(TheSteps) : MakesCall(p) => CalledAt(p)

C6_Step == AfterFullRun => fs' = fs

\* C6: a run that follows a run in which every image was downloaded issues no image
\* GET and no sleep, ends every download_image call through the skip branch and
\* leaves every file unchanged.
C6_RerunIsIdempotent == []C6_State /\ [][C6_Step]_vars

C6_Witness ==
    /\ AfterFullRun
    /\ pc = "done"
    /\ Len(calls) >= 2
    /\ \A i \in 1..Len(calls) : calls[i].result = "skipped"

\* the run ended normally and no attempt of any of its calls failed
NoNetworkFailure ==
    /\ pc = "done"
    /\ raised = NoExc
    /\ \A i \in 1..Len(calls) : Returned(calls[i]) /\ ~calls[i].retried

FirstWith(f) == CHOOSE i \in 1..Len(calls) :
                    /\ calls[i].filename = f
                    /\ \A j \in 1..(i - 1) : calls[j].filename # f

LastWith(f) == CHOOSE i \in 1..Len(calls) :
                   /\ calls[i].filename = f
                   /\ \A j \in (i + 1)..Len(calls) : calls[j].filename # f

\* C7 as stated: when images of one run share a filename and the network never
\* fails, the file holds at the end the body of the last image with that filename.
C7_LastWriterWins ==
    (run = 1 /\ NoNetworkFailure)
        => \A i \in 1..Len(calls) :
              LET f == calls[i].filename
              IN  Exists(f) /\ fs[f] = [url |-> calls[LastWith(f)].url, full |-> TRUE]

\* C7 amended: only the first image with a filename is written, and only when no
\* file of that name was there; the later images are skipped because the file
\* exists, and the file holds at the end the body of the first image.
C7_FirstWriterWins ==
    NoNetworkFailure
        => \A i \in 1..Len(calls) :
              LET f == calls[i].filename
                  first == calls[FirstWith(f)]
              IN  /\ Exists(f)
                  /\ i # FirstWith(f) => calls[i].existed /\ calls[i].result = "skipped"
                  /\ first.existed => first.result = "skipped"
                  /\ ~first.existed
                        => /\ first.result = "downloaded"
                           /\ fs[f] = [url |-> first.url, full |-> TRUE]

C7_Witness ==
    /\ run = 1
    /\ NoNetworkFailure
    /\ \E i, j \in 1..Len(calls) :
          /\ i < j
          /\ calls[i].filename = calls[j].filename
          /\ calls[i].url # calls[j].url
          /\ fs[calls[i].filename].url = calls[i].url

\* C8: for a manifest with neither items nor sequences the run makes no
\* download_image call and ends in an error state: an exception, or an error report.
C8_UnrecognisedDialectIsAnError ==
    (pc = "done" /\ parsed /\ Dialect(response.json) = "none")
        => /\ calls = <<>>
           /\ (raised # NoExc \/ errorLogged)

C9_State ==
    response.status_code # 200
        => /\ pc \in {"main", "done"}
           /\ ~parsed
           /\ calls = <<>>
           /\ fs = <<>>
           /\ raised = NoExc
           /\ pc = "done" => errorLogged

C9_Step == response.status_code # 200 => folderExists' = folderExists

\* C9: when the manifest GET answers a non-success status the run stops at once: the
\* folder is not created, the body is not parsed, no download_image call is made and
\* no file is written.
C9_ManifestFailureStopsTheRun == []C9_State /\ [][C9_Step]_vars

C9_Witness ==
    /\ response.status_code = 503
    /\ output # None
    /\ pc = "done"
    /\ ~folderExists
    /\ run = 2

\* "/full/full/0/default/default.jpg"
C10_Suffix ==
    <<"/", "f", "u", "l", "l", "/", "f", "u", "l", "l", "/", "0", "/",
      "d", "e", "f", "a", "u", "l", "t", "/", "d", "e", "f", "a", "u", "l", "t", ".", "j", "p", "g">>

CallsAt(p) == {i \in 1..Len(calls) : calls[i].pos = p}

\* the loop body at position p has been run to the point where nothing is left of it
BodyRun(p) == p < pos \/ (p = pos /\ todo = <<>>)

\* C10: on the v2 path, for every image resource the traversal handles whose @id is
\* non-empty and does not contain "vatlib", exactly one download_image call is made:
\* with @id + "/full/full/0/default/default.jpg" when @id does not contain "default",
\* with @id unchanged when it does.
C10_OneCallPerPlainResource ==
    (parsed /\ Dialect(response.json) = "v2")
        => \A p \in 1..Len(TheSteps) :
              LET id == TheSteps[p].node.resource.at_id
              IN  (id # <<>> /\ ~Contains(id, <<"v", "a", "t", "l", "i", "b">>))
                     => /\ Cardinality(CallsAt(p)) <= 1
                        /\ BodyRun(p) => Cardinality(CallsAt(p)) = 1
                        /\ \A i \in CallsAt(p) :
                              calls[i].url =
                                 IF Contains(id, <<"d", "e", "f", "a", "u", "l", "t">>)
                                 THEN id ELSE id \o C10_Suffix

C10_Witness ==
    /\ parsed
    /\ Dialect(response.json) = "v2"
    /\ pc = "done"
    /\ raised = NoExc
    /\ \E i, j \in 1..Len(calls) :
          /\ calls[i].line = 115 /\ calls[i].url = <<"a">> \o C10_Suffix
          /\ calls[j].line = 117 /\ calls[j].url = <<"b", "/">> \o S_default \o S_jpg


\* "/full/full/0/default.jpg"
C11_Suffix ==
    <<"/", "f", "u", "l", "l", "/", "f", "u", "l", "l", "/", "0", "/",
      "d", "e", "f", "a", "u", "l", "t", ".", "j", "p", "g">>

\* C11: on the v2 path, for every image resource the traversal handles whose @id
\* contains "vatlib" (and that has a service), the single URL fetched is
\* service["@id"] + "/full/full/0/default.jpg", also when @id contains "default";
\* neither the append URL nor the verbatim @id is fetched for it.
C11_VatlibUsesService ==
    (parsed /\ Dialect(response.json) = "v2")
        => \A p \in 1..Len(TheSteps) :
              LET resource == TheSteps[p].node.resource
              IN  (Contains(resource.at_id, <<"v", "a", "t", "l", "i", "b">>)
                      /\ "service" \in DOMAIN resource)
                     => /\ Cardinality(CallsAt(p)) <= 1
                        /\ BodyRun(p) => Cardinality(CallsAt(p)) = 1
                        /\ \A i \in CallsAt(p) :
                              /\ calls[i].url = resource.service.at_id \o C11_Suffix
                              /\ calls[i].url # resource.at_id
                              /\ calls[i].url # resource.at_id \o C10_Suffix

C11_Witness ==
    /\ parsed
    /\ Dialect(response.json) = "v2"
    /\ pc = "loop"
    /\ \E i \in 1..Len(calls) :
          /\ Contains(TheSteps[calls[i].pos].node.resource.at_id, S_default)
          /\ Contains(TheSteps[calls[i].pos].node.resource.at_id, S_vatlib)
          /\ calls[i].url = <<"s">> \o C11_Suffix
          /\ calls[i].result = "downloaded"


C12_Decimal(n) ==
    CASE n = 1 -> <<"1">> [] n = 2 -> <<"2">> [] n = 3 -> <<"3">> [] n = 4 -> <<"4">>
      [] n = 5 -> <<"5">> [] n = 6 -> <<"6">> [] n = 7 -> <<"7">> [] n = 8 -> <<"8">>
      [] n = 9 -> <<"9">>

\* the canvases of all sequences, in traversal order
C12_AllCanvases(manifest) ==
    Concat([s \in 1..Len(manifest.sequences) |-> manifest.sequences[s].canvases])

\* for each image in traversal order, the filename by the position of its canvas
C12_Names(manifest) ==
    LET all == C12_AllCanvases(manifest)
    IN  Concat([n \in 1..Len(all) |->
                   [k \in 1..Len(all[n].images) |->
                       IF "label" \in DOMAIN all[n]
                       THEN all[n].label \o <<".", "j", "p", "g">>
                       ELSE C12_Decimal(n) \o <<".", "j", "p", "g">>]])

\* C12: on the v2 path the filename of an unlabeled canvas is its 1-based position
\* among all canvases of all sequences, plus ".jpg": the index is not reset at a
\* sequence boundary and labeled canvases advance it too.
C12_IndexRunsAcrossSequences ==
    (parsed /\ Dialect(response.json) = "v2")
        => /\ Len(TheSteps) = Len(C12_Names(response.json))
           /\ \A i \in 1..Len(calls) :
                 calls[i].filename = C12_Names(response.json)[calls[i].pos]

C12_Witness ==
    /\ parsed
    /\ Dialect(response.json) = "v2"
    /\ Len(response.json.sequences) = 2
    /\ "label" \in DOMAIN response.json.sequences[1].canvases[1]
    /\ "label" \notin DOMAIN response.json.sequences[2].canvases[1]
    /\ pc = "done"
    /\ raised = NoExc
    /\ \E i \in 1..Len(calls) :
          /\ calls[i].filename = <<"2", ".", "j", "p", "g">>
          /\ calls[i].result = "downloaded"
          /\ calls[i].url = <<"a">> \o C10_Suffix


\* the body of an annotation, its first element when it is a list
C13_Body(annotation) ==
    IF annotation.body.type = "list" THEN annotation.body.value[1] ELSE annotation.body.value

\* every canvas has a label.none and exactly one image annotation with a non-empty id
C13_OneImagePerCanvas(manifest) ==
    \A n \in 1..Len(manifest.items) :
        LET canvas == manifest.items[n]
        IN  /\ "label" \in DOMAIN canvas
            /\ "none" \in DOMAIN canvas.label
            /\ Len(canvas.items) = 1
            /\ Len(canvas.items[1].items) = 1
            /\ "id" \in DOMAIN C13_Body(canvas.items[1].items[1])
            /\ C13_Body(canvas.items[1].items[1]).id # <<>>

\* C13: for a v3 manifest with N canvases that each hold exactly one image annotation
\* with a non-empty body id, the calls are made one per canvas, in manifest order,
\* each with (label.none[0] + ".jpg", body id), the first element of a list body; a
\* run that no exception cuts short makes exactly N of them.
C13_OneReferencePerCanvas ==
    (parsed /\ Dialect(response.json) = "v3" /\ C13_OneImagePerCanvas(response.json))
        => LET items == response.json.items
           IN  /\ Len(calls) <= Len(items)
               /\ warnings = <<>>
               /\ \A n \in 1..Len(calls) :
                     /\ calls[n].pos = n
                     /\ calls[n].filename = items[n].label.none[1] \o <<".", "j", "p", "g">>
                     /\ calls[n].url = C13_Body(items[n].items[1].items[1]).id
               /\ \A n \in 1..Len(items) : BodyRun(n) => Len(calls) >= n
               /\ (pc = "done" /\ raised = NoExc) => Len(calls) = Len(items)

C13_Witness ==
    /\ parsed
    /\ Dialect(response.json) = "v3"
    /\ C13_OneImagePerCanvas(response.json)
    /\ pc = "done"
    /\ raised = NoExc
    /\ Len(calls) = 2
    /\ calls[1].url = <<"b">>
    /\ calls[2].url = <<"a">>


WarnedAt(p) == \E k \in 1..Len(warnings) : warnings[k].pos = p

\* the body of the annotation at position p has no id, or an empty one
C14_NoUsableId(p) ==
    LET body == C13_Body(TheSteps[p].node)
    IN  "id" \notin DOMAIN body \/ body.id = <<>>

\* C14: on the v3 path an annotation whose body has no id, or an empty id, gives a
\* warning and no download_image call, and the run goes on: no exception ends it at
\* that annotation.
C14_MissingIdIsOnlyAWarning ==
    (parsed /\ Dialect(response.json) = "v3")
        => \A p \in 1..Len(TheSteps) :
              (p <= pos /\ C14_NoUsableId(p))
                 => /\ ~CalledAt(p)
                    /\ BodyRun(p) => WarnedAt(p)
                    /\ ~(p = pos /\ raised.type = "KeyError")

\* C15: started without an output directory, the run writes under the default folder
\* "iiif_images", which it creates if absent.
C15_DefaultFolderIsUsed ==
    (output = None /\ parsed /\ pc = "done")
        => /\ download_folder = "iiif_images"
           /\ folderExists
           /\ raised.type # "TypeError"

\* the image whose download is in flight, or was when an exception ended the run
C16_InFlight(f) ==
    /\ calls # <<>>
    /\ Cur.filename = f
    /\ Cur.result \in {"running", "failed"}

\* C16: in every state at most one file holds a truncated body, and it is the file of
\* the image whose download is in flight; no file of an image the run has moved past
\* is truncated.
C16_OnlyInFlightFileIsPartial ==
    /\ Cardinality({f \in DOMAIN fs : ~fs[f].full}) <= 1
    /\ \A f \in DOMAIN fs : ~fs[f].full => C16_InFlight(f)

\* C18: a "no image URL found" warning is emitted for an image only when no
\* download_image call is made for that image.
C18_WarningOnlyWithoutCall ==
    \A k \in 1..Len(warnings) : ~CalledAt(warnings[k].pos)


C17_State ==
    /\ InCall => Len(sleeps) = attempt - 1 /\ gets \in {attempt - 1, attempt}
    /\ sleeps # <<>> => sleeps[1] = 60
    /\ (calls # <<>> /\ Cur.result = "failed") => gets = 10 /\ Len(sleeps) = 9

\* a step that starts a download_image call
C17_Step ==
    Len(calls') = Len(calls) + 1
        => /\ attempt' = 1
           /\ gets' = 0
           /\ sleeps' = <<>>
           /\ pc' = "attempt"

\* C17: every download_image call starts at attempt 1, with no GET and no wait
\* behind it, a first backoff of 60 seconds and 10 attempts before it fails, whatever
\* the earlier calls of the run used.
C17_RetryStateIsPerCall == []C17_State /\ [][C17_Step]_vars

C17_Witness ==
    /\ Len(calls) = 2
    /\ calls[1].retried
    /\ pc = "attempt"
    /\ attempt = 2
    /\ gets = 1
    /\ sleeps = <<60>>


C19_Terminal ==
    pc = "done"
        => /\ \A i \in 1..Len(calls) : calls[i].result \in {"skipped", "downloaded", "failed"}
           /\ \/ raised # NoExc
              \/ errorLogged
              \/ \A p \in 1..Len(TheSteps) : MakesCall(p) => CalledAt(p)

\* C19: under fair progress of the sequential process every run reaches a terminal
\* state, in which each download_image call has ended as skipped, downloaded or
\* permanently failed and either every resolved reference was attempted or an error
\* ended the run.
C19_RunTerminates == []C19_Terminal /\ <>(pc = "done")

C19_Witness ==
    /\ pc = "done"
    /\ raised = NoExc
    /\ Len(calls) = 3
    /\ calls[1].retried
    /\ calls[1].result = "downloaded"
    /\ calls[2].result = "skipped"
    /\ calls[3].result = "downloaded"

====
